---- MODULE Spec2Model ----
(***************************************************************************)
(* tfgen: a graph of named frames joined by rigid transforms (src/lib.rs). *)
(* TfGraph wraps a petgraph UnGraph<String, SE3>: a vector of node weights *)
(* (the frame names) and a vector of edges (source, target, weight), both  *)
(* indexed in creation order.  Indices are 1-based here.                   *)
(***************************************************************************)
EXTENDS Integers, Sequences, FiniteSets, TLC

VARIABLES nodes, edges, last

vars == <<nodes, edges, last>>

(* ------------------------------ bounds --------------------------------- *)
MaxNodes == 3
DocMaxEdges == 3

Names == {"a", "b", "c"}

(* ------------------------------- SE3 ----------------------------------- *)
(* Rigid transforms are drawn from the dihedral subgroup of SO(3) that     *)
(* permutes three axes-in-a-plane: a finite, non-commutative subgroup of   *)
(* SE3, closed under composition and inverse.  An element is the           *)
(* permutation it induces.                                                 *)
SE3 == {p \in [1..3 -> 1..3] : \A i, j \in 1..3 : p[i] = p[j] => i = j}

identity == [i \in 1..3 |-> i]

compose(lhs, rhs) == [i \in 1..3 |-> lhs[rhs[i]]]

inverse(t) == [i \in 1..3 |-> CHOOSE j \in 1..3 : t[j] = i]

Rot == <<2, 3, 1>>
Flip == <<2, 1, 3>>
TFs == {Rot, Flip}

(* --------------------------- petgraph Graph ---------------------------- *)
None == 0

Max(S) == CHOOSE x \in S : \A y \in S : y <= x

(* find_node: the first node, in index order, whose weight is the name.    *)
find_node(N, s) ==
    IF \E i \in 1..Len(N) : N[i] = s
    THEN CHOOSE i \in 1..Len(N) : N[i] = s /\ \A j \in 1..(i - 1) : N[j] # s
    ELSE None

(* find_or_add_node that adds a node without looking the name up.         *)
find_or_add_node_always_adds(N, s) == Append(N, s)

(* find_or_add_node: the node list after the call (add_node appends).      *)
find_or_add_node(N, s) == IF find_node(N, s) # None THEN N ELSE Append(N, s)

(* Graph::find_edge_undirected(a, b): a's outgoing edges are scanned       *)
(* first, then its incoming ones; each list is linked newest edge first.   *)
find_edge_undirected(E, a, b) ==
    LET out == {i \in 1..Len(E) : E[i].source = a /\ E[i].target = b}
        inc == {i \in 1..Len(E) : E[i].target = a /\ E[i].source = b}
    IN  IF out # {} THEN [edge |-> Max(out), dir |-> "Outgoing"]
        ELSE IF inc # {} THEN [edge |-> Max(inc), dir |-> "Incoming"]
        ELSE [edge |-> None, dir |-> "None"]

add_edge(E, a, b, tf) == Append(E, [source |-> a, target |-> b, weight |-> tf])

(* Graph::remove_edge swap-removes: the last edge takes the freed index.   *)
remove_edge(E, e) ==
    LET n == Len(E)
    IN  [i \in 1..(n - 1) |-> IF i = e THEN E[n] ELSE E[i]]

(* algo::is_cyclic_undirected: union-find over the edges in index order;   *)
(* an edge whose endpoints are already in one set closes a cycle.          *)
RECURSIVE UnionScan(_, _, _)
UnionScan(E, k, set) ==
    IF k > Len(E) THEN FALSE
    ELSE LET ra == set[E[k].source]
             rb == set[E[k].target]
         IN  IF ra = rb THEN TRUE
             ELSE UnionScan(E, k + 1,
                      [x \in DOMAIN set |-> IF set[x] = rb THEN ra ELSE set[x]])

is_cyclic_undirected(N, E) == UnionScan(E, 1, [x \in 1..Len(N) |-> x])

(* ------------------------------ TfGraph -------------------------------- *)
(* add_tf, first step: both names are looked up or created, src first.     *)
find_nodes(N, src, dst) ==
    LET N1 == find_or_add_node(N, src)
        N2 == find_or_add_node(N1, dst)
    IN  [nodes |-> N2, a |-> find_node(N1, src), b |-> find_node(N2, dst)]

(* update_or_add as Graph::update_edge would do it: an edge found in       *)
(* either direction is overwritten.                                        *)
update_or_add_any_direction(E, a, b, tf) ==
    LET f == find_edge_undirected(E, a, b)
    IN  IF f.edge # None
        THEN [edges |-> [E EXCEPT ![f.edge].weight = tf], edge_new |-> f.edge]
        ELSE [edges |-> add_edge(E, a, b, tf), edge_new |-> Len(E) + 1]

(* update_or_add that never looks for an existing edge.                    *)
update_or_add_always_adds(E, a, b, tf) ==
    [edges |-> add_edge(E, a, b, tf), edge_new |-> Len(E) + 1]

(* add_tf, second step: an edge found in the call's own direction has its  *)
(* weight overwritten; otherwise a new edge a -> b is appended.            *)
update_or_add(E, a, b, tf) ==
    LET f == find_edge_undirected(E, a, b)
    IN  IF f.edge # None /\ f.dir = "Outgoing"
        THEN [edges |-> [E EXCEPT ![f.edge].weight = tf], edge_new |-> f.edge]
        ELSE [edges |-> add_edge(E, a, b, tf), edge_new |-> Len(E) + 1]

(* add_tf without the rollback: the rejected edge stays in the graph.      *)
add_tf_keeps_edge(N, E, src, dst, tf) ==
    LET n == find_nodes(N, src, dst)
        e == update_or_add(E, n.a, n.b, tf)
    IN  [nodes |-> n.nodes, edges |-> e.edges,
         ok |-> ~is_cyclic_undirected(n.nodes, e.edges)]

(* add_tf whose rollback removes the oldest edge instead of the new one.   *)
add_tf_removes_oldest(N, E, src, dst, tf) ==
    LET n == find_nodes(N, src, dst)
        e == update_or_add(E, n.a, n.b, tf)
    IN  IF is_cyclic_undirected(n.nodes, e.edges)
        THEN [nodes |-> n.nodes, edges |-> remove_edge(e.edges, 1), ok |-> FALSE]
        ELSE [nodes |-> n.nodes, edges |-> e.edges, ok |-> TRUE]

(* add_tf that skips the cycle test when a name was not yet a frame.       *)
add_tf_skips_new(N, E, src, dst, tf) ==
    LET n == find_nodes(N, src, dst)
        e == update_or_add(E, n.a, n.b, tf)
    IN  IF Len(n.nodes) = Len(N) /\ is_cyclic_undirected(n.nodes, e.edges)
        THEN [nodes |-> n.nodes, edges |-> remove_edge(e.edges, e.edge_new),
              ok |-> FALSE]
        ELSE [nodes |-> n.nodes, edges |-> e.edges, ok |-> TRUE]

(* add_tf: the graph after the call and whether it returned Some(()).      *)
add_tf(N, E, src, dst, tf) ==
    LET n == find_nodes(N, src, dst)
        e == update_or_add(E, n.a, n.b, tf)
    IN  IF is_cyclic_undirected(n.nodes, e.edges)
        THEN [nodes |-> n.nodes, edges |-> remove_edge(e.edges, e.edge_new),
              ok |-> FALSE]
        ELSE [nodes |-> n.nodes, edges |-> e.edges, ok |-> TRUE]

(* algo::astar with unit edge costs and a zero estimate: a shortest path   *)
(* from src to dst as a sequence of node indices, or <<>> when dst cannot  *)
(* be reached.  Edges are followed in both directions (undirected graph).  *)
Neighbors(E, a) ==
    {E[i].target : i \in {j \in 1..Len(E) : E[j].source = a}} \cup
    {E[i].source : i \in {j \in 1..Len(E) : E[j].target = a}}

RECURSIVE Explore(_, _, _, _)
Explore(E, dst, found, frontier) ==
    IF \E p \in found : p[Len(p)] = dst
    THEN CHOOSE p \in found : p[Len(p)] = dst
    ELSE LET seen == {p[Len(p)] : p \in found}
             reach == UNION {Neighbors(E, p[Len(p)]) : p \in frontier} \ seen
             next == {CHOOSE q \in {Append(p, n) : p \in
                          {r \in frontier : n \in Neighbors(E, r[Len(r)])}} : TRUE
                      : n \in reach}
         IN  IF next = {} THEN <<>>
             ELSE Explore(E, dst, found \cup next, next)

astar(E, src, dst) == Explore(E, dst, {<<src>>}, {<<src>>})

(* The loop of query_tf composing on the right: tf = tf * lhs.             *)
RECURSIVE PathTf_right(_, _, _, _)
PathTf_right(E, path, k, tf) ==
    IF k >= Len(path) THEN tf
    ELSE LET f == find_edge_undirected(E, path[k], path[k + 1])
             lhs == IF f.dir = "Outgoing" THEN E[f.edge].weight
                    ELSE inverse(E[f.edge].weight)
         IN  PathTf_right(E, path, k + 1, compose(tf, lhs))

RECURSIVE PathTf_no_inverse(_, _, _, _)
PathTf_no_inverse(E, path, k, tf) ==
    IF k >= Len(path) THEN tf
    ELSE LET f == find_edge_undirected(E, path[k], path[k + 1])
             lhs == E[f.edge].weight
         IN  PathTf_no_inverse(E, path, k + 1, compose(lhs, tf))

(* The loop of query_tf over consecutive path nodes: tf = lhs * tf.        *)
RECURSIVE PathTf(_, _, _, _)
PathTf(E, path, k, tf) ==
    IF k >= Len(path) THEN tf
    ELSE LET f == find_edge_undirected(E, path[k], path[k + 1])
             lhs == IF f.dir = "Outgoing" THEN E[f.edge].weight
                    ELSE inverse(E[f.edge].weight)
         IN  PathTf(E, path, k + 1, compose(lhs, tf))

NotFound == [ok |-> FALSE, tf |-> identity, path |-> <<>>]

(* query_tf that only follows a direct edge instead of searching a path.   *)
query_tf_direct_only(N, E, src, dst) ==
    LET a == find_node(N, src)
        b == find_node(N, dst)
    IN  IF a = None \/ b = None THEN NotFound
        ELSE LET path_nodes == IF a = b THEN <<a>>
                               ELSE IF find_edge_undirected(E, a, b).edge # None
                                    THEN <<a, b>> ELSE <<>>
             IN  IF path_nodes = <<>> THEN NotFound
                 ELSE [ok |-> TRUE,
                       tf |-> PathTf(E, path_nodes, 1, identity),
                       path |-> [i \in 1..Len(path_nodes) |-> N[path_nodes[i]]]]

(* query_tf that takes a path of a single node for no path.                *)
query_tf_needs_edge(N, E, src, dst) ==
    LET a == find_node(N, src)
        b == find_node(N, dst)
    IN  IF a = None \/ b = None THEN NotFound
        ELSE LET path_nodes == astar(E, a, b)
             IN  IF Len(path_nodes) < 2 THEN NotFound
                 ELSE [ok |-> TRUE,
                       tf |-> PathTf(E, path_nodes, 1, identity),
                       path |-> [i \in 1..Len(path_nodes) |-> N[path_nodes[i]]]]

query_tf(N, E, src, dst) ==
    LET a == find_node(N, src)
        b == find_node(N, dst)
    IN  IF a = None \/ b = None THEN NotFound
        ELSE LET path_nodes == astar(E, a, b)
             IN  IF path_nodes = <<>> THEN NotFound
                 ELSE [ok |-> TRUE,
                       tf |-> PathTf(E, path_nodes, 1, identity),
                       path |-> [i \in 1..Len(path_nodes) |-> N[path_nodes[i]]]]

(* --------------------------- persisted documents ----------------------- *)
(* A document is what serde_json reads: either text that is not a graph    *)
(* document at all (wellformed = FALSE) or a node list and an edge list    *)
(* whose endpoints are node positions.  Deserialization rejects an edge    *)
(* that names a position outside the node list; it checks nothing else.    *)
SeqsUpTo(S, n) == UNION {[1..k -> S] : k \in 0..n}

DocTf == Rot

DocNames == {"a", "b"}

DocEdge(s, t) == [source |-> s, target |-> t, weight |-> DocTf]

(* The edges a document may list, in the order it lists them: a self-loop, *)
(* the same pair twice in one direction and once in the other, and the     *)
(* two further sides of a triangle.                                        *)
DocRing == <<DocEdge(1, 1), DocEdge(1, 2), DocEdge(1, 2), DocEdge(2, 1),
             DocEdge(2, 3), DocEdge(3, 1)>>

RECURSIVE Pick(_, _)
Pick(R, I) ==
    IF I = {} THEN <<>>
    ELSE LET m == Max(I) IN Append(Pick(R, I \ {m}), R[m])

DocEdgeLists ==
    {Pick(DocRing, I) : I \in {J \in SUBSET (1..Len(DocRing)) :
                                  Cardinality(J) <= DocMaxEdges}}

Docs == [wellformed : {TRUE}, nodes : SeqsUpTo(DocNames, MaxNodes),
         edges : DocEdgeLists]
        \cup {[wellformed |-> FALSE, nodes |-> <<>>, edges |-> <<>>]}

from_reader(d) ==
    d.wellformed /\ \A i \in 1..Len(d.edges) :
        d.edges[i].source <= Len(d.nodes) /\ d.edges[i].target <= Len(d.nodes)

(* load_json that installs whatever parses, without the cycle test.        *)
load_json_unchecked(N, E, d) ==
    IF ~from_reader(d) THEN [nodes |-> N, edges |-> E, ok |-> FALSE]
    ELSE [nodes |-> d.nodes, edges |-> d.edges, ok |-> TRUE]

(* load_json: the graph after the call and whether it returned Ok(()).     *)
load_json(N, E, d) ==
    IF ~from_reader(d) THEN [nodes |-> N, edges |-> E, ok |-> FALSE]
    ELSE IF is_cyclic_undirected(d.nodes, d.edges)
         THEN [nodes |-> N, edges |-> E, ok |-> FALSE]
         ELSE [nodes |-> d.nodes, edges |-> d.edges, ok |-> TRUE]

(* What serde writes for a petgraph Graph: the node weights in index       *)
(* order, no node holes, the edge property, and per edge the triple of its *)
(* source position, target position (both counted from 0) and weight.      *)
dump_json_swapped(N, E) ==
    [nodes |-> N, node_holes |-> <<>>, edge_property |-> "undirected",
     edges |-> [k \in 1..Len(E) |->
                   <<E[k].target - 1, E[k].source - 1, E[k].weight>>]]

dump_json(N, E) ==
    [nodes |-> N, node_holes |-> <<>>, edge_property |-> "undirected",
     edges |-> [k \in 1..Len(E) |->
                   <<E[k].source - 1, E[k].target - 1, E[k].weight>>]]

(* Reading such text back: a directed graph or one with node holes is not  *)
(* an UnGraph document; edge triples become edges between node positions.  *)
read_json(j) ==
    [wellformed |-> j.edge_property = "undirected" /\ j.node_holes = <<>>,
     nodes |-> j.nodes,
     edges |-> [k \in 1..Len(j.edges) |->
                   [source |-> j.edges[k][1] + 1, target |-> j.edges[k][2] + 1,
                    weight |-> j.edges[k][3]]]]

(* nodes(): the node weights in index order.                               *)
nodes_of(N) == N

(* transforms(): per edge in index order, the names of source and target.  *)
transforms(N, E) == [k \in 1..Len(E) |-> <<N[E[k].source], N[E[k].target]>>]

(* ------------------------------ the program ---------------------------- *)
NoArg == "-"
Call(op, src, dst, ok) == [op |-> op, src |-> src, dst |-> dst, ok |-> ok]

Init ==
    /\ nodes = <<>>
    /\ edges = <<>>
    /\ last = Call("new", NoArg, NoArg, TRUE)

Add(src, dst, tf) ==
    LET r == add_tf(nodes, edges, src, dst, tf)
    IN  /\ Len(r.nodes) <= MaxNodes
        /\ nodes' = r.nodes
        /\ edges' = r.edges
        /\ last' = Call("add", src, dst, r.ok)

Query(src, dst) ==
    /\ last' = Call("query", src, dst, query_tf(nodes, edges, src, dst).ok)
    /\ UNCHANGED <<nodes, edges>>

(* reset that clears the edges only (Graph::clear_edges).                  *)
Reset_clears_edges ==
    /\ nodes' = nodes
    /\ edges' = <<>>
    /\ last' = Call("reset", NoArg, NoArg, TRUE)

Reset ==
    /\ nodes' = <<>>
    /\ edges' = <<>>
    /\ last' = Call("reset", NoArg, NoArg, TRUE)

Load(d) ==
    LET r == load_json(nodes, edges, d)
    IN  /\ nodes' = r.nodes
        /\ edges' = r.edges
        /\ last' = Call("load", NoArg, NoArg, r.ok)

(* Save writes dump_json of the graph to a file, which may fail to open.   *)
Save(good) ==
    /\ last' = Call("save", NoArg, NoArg, good)
    /\ UNCHANGED <<nodes, edges>>

Next ==
    \/ \E src, dst \in Names, tf \in TFs : Add(src, dst, tf)
    \/ \E src, dst \in Names : Query(src, dst)
    \/ Reset
    \/ \E d \in Docs : Load(d)
    \/ \E good \in BOOLEAN : Save(good)

Spec == Init /\ [][Next]_vars

(* ------------------------- graph-theoretic terms ----------------------- *)
(* Stated on the node and edge lists directly, without the union-find and  *)
(* the search the program uses.                                            *)
Adjacent(E, i, j) ==
    \E k \in 1..Len(E) : \/ E[k].source = i /\ E[k].target = j
                         \/ E[k].source = j /\ E[k].target = i

RECURSIVE Component(_, _, _)
Component(N, E, S) ==
    LET T == S \cup {j \in 1..Len(N) : \E i \in S : Adjacent(E, i, j)}
    IN  IF T = S THEN S ELSE Component(N, E, T)

Connected(N, E, i, j) == j \in Component(N, E, {i})

Without(E, k) == [i \in 1..(Len(E) - 1) |-> IF i < k THEN E[i] ELSE E[i + 1]]

NoSelfEdge(E) == \A k \in 1..Len(E) : E[k].source # E[k].target

AtMostOneEdge(E) ==
    \A k, l \in 1..Len(E) :
        {E[k].source, E[k].target} = {E[l].source, E[l].target} => k = l

(* No undirected cycle: every edge is the only connection of its ends.     *)
NoCycle(N, E) ==
    \A k \in 1..Len(E) : ~Connected(N, Without(E, k), E[k].source, E[k].target)

IsForest(N, E) == NoSelfEdge(E) /\ AtMostOneEdge(E) /\ NoCycle(N, E)

(* ------------------------------- claims -------------------------------- *)
(* C1: after every add_transform, reset and load call, successful or not,  *)
(* the graph is a forest (no self-edge, at most one edge between two       *)
(* frames in either direction, no undirected cycle), so the assertion at   *)
(* the entry of add_tf, that the graph is not cyclic, holds at every call. *)
C1_Forest ==
    /\ IsForest(nodes, edges)
    /\ ~is_cyclic_undirected(nodes, edges)

(* A rejected add_transform has just returned on a graph of two edges.     *)
C1_Witness ==
    /\ last.op = "add" /\ ~last.ok /\ last.src # last.dst
    /\ Len(edges) = 2

(* The frame a name designates is the one find_node resolves it to.        *)
IsFrame(s) == find_node(nodes, s) # None
FrameOf(s) == find_node(nodes, s)

HasEdge(i, j) == \E k \in 1..Len(edges) : edges[k].source = i /\ edges[k].target = j

Unchanged(r) == r.nodes = nodes /\ r.edges = edges

(* C2, as claimed: whenever src and dst are already connected by a path of *)
(* any length, a single edge in either direction included,                 *)
(* add_transform(src, dst, T) fails and leaves frames, edges and           *)
(* transforms unchanged.                                                   *)
C2_ConnectedAddFails ==
    \A src, dst \in Names, tf \in TFs :
        (IsFrame(src) /\ IsFrame(dst)
            /\ Connected(nodes, edges, FrameOf(src), FrameOf(dst)))
        => LET r == add_tf(nodes, edges, src, dst, tf)
           IN  ~r.ok /\ Unchanged(r)

(* C2, amended: whenever src and dst are already connected by a path and   *)
(* no edge is stored in the direction src -> dst, add_transform(src, dst,  *)
(* T) fails and leaves frames, edges and transforms unchanged.             *)
C2_ConnectedAddFailsUnlessSameDirection ==
    \A src, dst \in Names, tf \in TFs :
        (IsFrame(src) /\ IsFrame(dst)
            /\ Connected(nodes, edges, FrameOf(src), FrameOf(dst))
            /\ ~HasEdge(FrameOf(src), FrameOf(dst)))
        => LET r == add_tf(nodes, edges, src, dst, tf)
           IN  ~r.ok /\ Unchanged(r)

(* add_transform(src, dst) was just rejected where the edge dst -> src is  *)
(* stored.                                                                 *)
C2_Witness ==
    /\ last.op = "add" /\ ~last.ok /\ last.src # last.dst
    /\ IsFrame(last.src) /\ IsFrame(last.dst)
    /\ HasEdge(FrameOf(last.dst), FrameOf(last.src))

(* C3: add_transform(x, x, T) fails for every name x, a frame of the graph *)
(* or not, and every T, and the graph holds no self-edge afterwards.       *)
C3_SelfAddFails ==
    \A x \in Names, tf \in TFs :
        LET r == add_tf(nodes, edges, x, x, tf)
        IN  ~r.ok /\ NoSelfEdge(r.edges)

(* add_transform(x, x) was just rejected on a graph that has edges.        *)
C3_Witness ==
    /\ last.op = "add" /\ ~last.ok /\ last.src = last.dst
    /\ edges # <<>> /\ NoSelfEdge(edges)

(* C4: add_transform(x, x, T) leaves the frame list, the edge list and     *)
(* every transform as they were, also when x was not a frame before.       *)
C4_SelfAddNoMutation ==
    \A x \in Names, tf \in TFs : Unchanged(add_tf(nodes, edges, x, x, tf))

(* C5: for distinct src and dst, a rejected add_transform leaves the graph *)
(* exactly as before: same frames in the same order, same edges in the     *)
(* same order and direction, same transform on every edge.                 *)
C5_RejectedAddRestores ==
    \A src, dst \in Names, tf \in TFs :
        LET r == add_tf(nodes, edges, src, dst, tf)
        IN  (src # dst /\ ~r.ok) => Unchanged(r)

(* add_transform was just rejected for two frames joined by a path of more *)
(* than one edge.                                                          *)
C5_Witness ==
    /\ last.op = "add" /\ ~last.ok /\ last.src # last.dst
    /\ IsFrame(last.src) /\ IsFrame(last.dst)
    /\ ~Adjacent(edges, FrameOf(last.src), FrameOf(last.dst))
    /\ Connected(nodes, edges, FrameOf(last.src), FrameOf(last.dst))

(* C6: where an edge src -> dst is stored, add_transform(src, dst, T)      *)
(* succeeds, puts T on that edge and changes nothing else: same frames,    *)
(* same number of edges, same endpoints and directions, same transforms on *)
(* the other edges.                                                        *)
C6_SameDirectionOverwrites ==
    \A src, dst \in Names, tf \in TFs : \A k \in 1..Len(edges) :
        (IsFrame(src) /\ IsFrame(dst)
            /\ edges[k].source = FrameOf(src) /\ edges[k].target = FrameOf(dst))
        => LET r == add_tf(nodes, edges, src, dst, tf)
           IN  /\ r.ok
               /\ r.nodes = nodes
               /\ r.edges = [edges EXCEPT ![k].weight = tf]

(* add_transform(src, dst) just succeeded on an edge src -> dst that is    *)
(* not the newest edge, so it overwrote that edge.                         *)
C6_Witness ==
    /\ last.op = "add" /\ last.ok
    /\ \E k \in 1..(Len(edges) - 1) :
           /\ edges[k].source = FrameOf(last.src)
           /\ edges[k].target = FrameOf(last.dst)

Joined(x, y) ==
    \E k \in 1..Len(edges) :
        {nodes[edges[k].source], nodes[edges[k].target]} = {x, y}

(* C7: query(src, dst) fails exactly when src or dst is not a frame or the *)
(* two frames lie in different connected components; otherwise it returns  *)
(* a path that starts at src, ends at dst and whose consecutive frames are *)
(* joined by an edge.                                                      *)
C7_QueryNotFoundIff ==
    \A src, dst \in Names :
        LET q == query_tf(nodes, edges, src, dst)
        IN  /\ ~q.ok <=> \/ ~IsFrame(src)
                         \/ ~IsFrame(dst)
                         \/ ~Connected(nodes, edges, FrameOf(src), FrameOf(dst))
            /\ q.ok => /\ q.path[1] = src
                       /\ q.path[Len(q.path)] = dst
                       /\ \A i \in 1..(Len(q.path) - 1) :
                              Joined(q.path[i], q.path[i + 1])

(* A query between two frames of different components just failed.         *)
C7_Witness ==
    /\ last.op = "query" /\ ~last.ok
    /\ IsFrame(last.src) /\ IsFrame(last.dst)
    /\ edges # <<>>

(* The simple paths of the graph from node i to node j.                    *)
SimplePaths(i, j) ==
    {p \in SeqsUpTo(1..Len(nodes), Len(nodes)) :
        /\ p # <<>> /\ p[1] = i /\ p[Len(p)] = j
        /\ \A k, l \in 1..Len(p) : p[k] = p[l] => k = l
        /\ \A k \in 1..(Len(p) - 1) : Adjacent(edges, p[k], p[k + 1])}

(* The transform of one step i -> j: the edge's own when the edge is       *)
(* stored i -> j, its inverse when it is stored j -> i.                    *)
Step(i, j) ==
    LET k == CHOOSE k \in 1..Len(edges) :
                 {edges[k].source, edges[k].target} = {i, j}
    IN  IF edges[k].source = i THEN edges[k].weight ELSE inverse(edges[k].weight)

RECURSIVE Walk(_)
Walk(p) ==
    IF Len(p) <= 1 THEN identity
    ELSE compose(Step(p[Len(p) - 1], p[Len(p)]), Walk(SubSeq(p, 1, Len(p) - 1)))

AbAcGraph ==
    /\ nodes = <<"a", "b", "c">>
    /\ Len(edges) = 2
    /\ edges[1].source = 1 /\ edges[1].target = 2
    /\ edges[2].source = 1 /\ edges[2].target = 3

(* C8: a successful query(src, dst) returns the one simple path from src   *)
(* to dst and the transform of walking it: each step's transform (the      *)
(* edge's, or its inverse against the edge's direction) composed on the    *)
(* left of the running result, starting from identity.  After add(a, b,    *)
(* T_ab) and add(a, c, T_ac), query(b, c) is compose(T_ac, inverse(T_ab))  *)
(* with path [b, a, c].                                                    *)
C8_QueryComposesAlongPath ==
    /\ \A src, dst \in Names :
           LET q == query_tf(nodes, edges, src, dst)
               ps == SimplePaths(FrameOf(src), FrameOf(dst))
           IN  q.ok => /\ Cardinality(ps) = 1
                       /\ \A p \in ps :
                              /\ q.path = [i \in 1..Len(p) |-> nodes[p[i]]]
                              /\ q.tf = Walk(p)
    /\ AbAcGraph =>
           query_tf(nodes, edges, "b", "c") =
               [ok |-> TRUE,
                tf |-> compose(edges[2].weight, inverse(edges[1].weight)),
                path |-> <<"b", "a", "c">>]

(* query(b, c) was just answered on the graph of a -> b and a -> c, whose  *)
(* two transforms do not commute.                                          *)
C8_Witness ==
    /\ last = Call("query", "b", "c", TRUE)
    /\ AbAcGraph
    /\ compose(edges[1].weight, edges[2].weight)
           # compose(edges[2].weight, edges[1].weight)

(* C9: for every frame a of the graph, query(a, a) succeeds with the       *)
(* identity transform and the path [a].                                    *)
C9_QuerySelfIsIdentity ==
    \A a \in Names :
        IsFrame(a) => query_tf(nodes, edges, a, a) =
                          [ok |-> TRUE, tf |-> identity, path |-> <<a>>]

(* query(a, a) was just answered for a frame that has an edge.             *)
C9_Witness ==
    /\ last.op = "query" /\ last.ok /\ last.src = last.dst
    /\ \E j \in 1..Len(nodes) : Adjacent(edges, FrameOf(last.src), j)

ForestDocs == {d \in Docs : from_reader(d) /\ IsForest(d.nodes, d.edges)}

(* C10: load of a document that does not parse, or that parses to a graph  *)
(* with a self-loop, two edges between one pair or a longer cycle, fails   *)
(* and leaves the graph unchanged; load of a document that parses to an    *)
(* acyclic graph makes the graph exactly the document's, with no frame or  *)
(* edge of the previous graph kept.                                        *)
C10_LoadAllOrNothing ==
    \A d \in Docs :
        LET r == load_json(nodes, edges, d)
        IN  IF d \in ForestDocs
            THEN r.ok /\ r.nodes = d.nodes /\ r.edges = d.edges
            ELSE ~r.ok /\ Unchanged(r)

(* A load was just refused and the graph still holds its edges.            *)
C10_Witness ==
    /\ last.op = "load" /\ ~last.ok
    /\ edges # <<>>

IsPrefix(p, q) == Len(p) <= Len(q) /\ \A i \in 1..Len(p) : p[i] = q[i]

(* C12: list_frames yields each frame name exactly once, in creation       *)
(* order, and list_edges one (source, target) pair per edge in creation    *)
(* order and canonical direction: an add_transform only appends to them,   *)
(* and a rejected add_transform or an in-place overwrite changes neither.  *)
C12_ListingsInCreationOrder ==
    /\ \A i, j \in 1..Len(nodes_of(nodes)) :
           nodes_of(nodes)[i] = nodes_of(nodes)[j] => i = j
    /\ Len(transforms(nodes, edges)) = Len(edges)
    /\ \A src, dst \in Names, tf \in TFs :
           LET r == add_tf(nodes, edges, src, dst, tf)
               overwrite == IsFrame(src) /\ IsFrame(dst)
                            /\ HasEdge(FrameOf(src), FrameOf(dst))
           IN  /\ IsPrefix(nodes_of(nodes), nodes_of(r.nodes))
               /\ IsPrefix(transforms(nodes, edges), transforms(r.nodes, r.edges))
               /\ (~r.ok \/ overwrite) =>
                      /\ nodes_of(r.nodes) = nodes_of(nodes)
                      /\ transforms(r.nodes, r.edges) = transforms(nodes, edges)

(* C13: after reset the graph has no frames and no edges: every query      *)
(* fails, and add_transform between any two distinct names succeeds,       *)
(* whatever was rejected before the reset.                                 *)
C13_ResetEmpties ==
    last.op = "reset" =>
        /\ nodes = <<>>
        /\ edges = <<>>
        /\ \A src, dst \in Names : ~query_tf(nodes, edges, src, dst).ok
        /\ \A src, dst \in Names, tf \in TFs :
               src # dst => add_tf(nodes, edges, src, dst, tf).ok

(* reset has just run.                                                     *)
C13_Witness ==
    /\ last.op = "reset"
    /\ nodes_of(nodes) = <<>> /\ transforms(nodes, edges) = <<>>

(* ------------------------------ se3.rs --------------------------------- *)
(* from_array on arrays of numbers.  Entries are small integers, which f64 *)
(* holds exactly; on them the tolerance 1e-6 of is_special_orthogonal      *)
(* admits no difference, so its comparisons are equalities.                *)
MaxArrLen == 17

ArrVals == {-1, 0, 1}

Dot4(q) == q[1] * q[1] + q[2] * q[2] + q[3] * q[3] + q[4] * q[4]

(* UnitQuaternion::from_quaternion divides q by its norm: q / sqrt(norm2), *)
(* which is NaN in every component when the norm is 0.                     *)
from_quaternion(q) ==
    [kind |-> "quaternion", q |-> q, norm2 |-> Dot4(q), nan |-> Dot4(q) = 0]

UnitIdentity == from_quaternion(<<0, 0, 0, 1>>)

(* Matrix3::from_row_slice / Matrix4::from_row_slice.                      *)
Matrix3(a) == [r \in 1..3 |-> [c \in 1..3 |-> a[3 * (r - 1) + c]]]
Matrix4(a) == [r \in 1..4 |-> [c \in 1..4 |-> a[4 * (r - 1) + c]]]

(* fixed_view::<3, 3>(0, 0) and fixed_view::<3, 1>(0, 3).                  *)
Rot3(m4) == [r \in 1..3 |-> [c \in 1..3 |-> m4[r][c]]]
Trans3(m4) == [r \in 1..3 |-> m4[r][4]]

determinant(m) ==
      m[1][1] * (m[2][2] * m[3][3] - m[2][3] * m[3][2])
    - m[1][2] * (m[2][1] * m[3][3] - m[2][3] * m[3][1])
    + m[1][3] * (m[2][1] * m[3][2] - m[2][2] * m[3][1])

(* is_orthogonal: transpose(m) * m is the identity.                        *)
is_orthogonal(m) ==
    \A i, j \in 1..3 :
        m[1][i] * m[1][j] + m[2][i] * m[2][j] + m[3][i] * m[3][j]
            = IF i = j THEN 1 ELSE 0

is_special_orthogonal(m) == is_orthogonal(m) /\ determinant(m) > 0

NoTf == [ok |-> FALSE]
SomeTf(t, rot) == [ok |-> TRUE, translation |-> t, rotation |-> rot]
FromMatrix(m) == [kind |-> "matrix", m |-> m]

(* from_array that tests orthogonality only, not the determinant's sign.   *)
from_array_any_orthogonal(a) ==
    CASE Len(a) = 7 -> SomeTf(<<a[1], a[2], a[3]>>,
                              from_quaternion(<<a[4], a[5], a[6], a[7]>>))
      [] Len(a) = 3 -> SomeTf(<<a[1], a[2], a[3]>>, UnitIdentity)
      [] Len(a) = 4 -> SomeTf(<<0, 0, 0>>, from_quaternion(a))
      [] Len(a) = 9 -> IF is_orthogonal(Matrix3(a))
                       THEN SomeTf(<<0, 0, 0>>, FromMatrix(Matrix3(a)))
                       ELSE NoTf
      [] Len(a) = 16 -> IF is_orthogonal(Rot3(Matrix4(a)))
                        THEN SomeTf(Trans3(Matrix4(a)), FromMatrix(Rot3(Matrix4(a))))
                        ELSE NoTf
      [] OTHER -> NoTf

from_array(a) ==
    CASE Len(a) = 7 -> SomeTf(<<a[1], a[2], a[3]>>,
                              from_quaternion(<<a[4], a[5], a[6], a[7]>>))
      [] Len(a) = 3 -> SomeTf(<<a[1], a[2], a[3]>>, UnitIdentity)
      [] Len(a) = 4 -> SomeTf(<<0, 0, 0>>, from_quaternion(a))
      [] Len(a) = 9 -> IF is_special_orthogonal(Matrix3(a))
                       THEN SomeTf(<<0, 0, 0>>, FromMatrix(Matrix3(a)))
                       ELSE NoTf
      [] Len(a) = 16 -> IF is_special_orthogonal(Rot3(Matrix4(a)))
                        THEN SomeTf(Trans3(Matrix4(a)), FromMatrix(Rot3(Matrix4(a))))
                        ELSE NoTf
      [] OTHER -> NoTf

(* The arrays from_array is applied to: every array over ArrVals of up to  *)
(* 7 entries and of 9 entries, every 4x4 array whose rotation block is     *)
(* such a 9-entry array (with a fixed translation column and a bottom row  *)
(* that is or is not [0, 0, 0, 1]), and constant arrays of other lengths.  *)
Mat4Array(m, bottom) ==
    <<m[1], m[2], m[3], 1, m[4], m[5], m[6], 0, m[7], m[8], m[9], -1>> \o bottom

ArraysOfLen(n) ==
    IF n <= 7 \/ n = 9 THEN [1..n -> ArrVals]
    ELSE IF n = 16
         THEN {Mat4Array(m, b) : m \in [1..9 -> ArrVals],
                                 b \in {<<0, 0, 0, 1>>, <<0, 0, 0, 0>>}}
         ELSE {[i \in 1..n |-> v] : v \in ArrVals}

Arrays == UNION {ArraysOfLen(n) : n \in 0..MaxArrLen}

(* parse_input hands the numbers of an Add line to from_array.             *)
InitArray ==
    /\ nodes = <<>>
    /\ edges = <<>>
    /\ \E a \in Arrays : last = Call("numbers", a, NoArg, TRUE)

FromArray ==
    /\ last.op = "numbers"
    /\ LET r == from_array(last.src)
       IN  last' = Call("from_array", last.src, r, r.ok)
    /\ UNCHANGED <<nodes, edges>>

NextArray == FromArray

SpecArray == InitArray /\ [][NextArray]_vars

(* A rotation matrix in the claim's terms: rows of unit length, pairwise   *)
(* perpendicular, determinant +1.                                          *)
RowDot(m, i, j) == m[i][1] * m[j][1] + m[i][2] * m[j][2] + m[i][3] * m[j][3]

Orthonormal(m) ==
    \A i, j \in 1..3 : RowDot(m, i, j) = IF i = j THEN 1 ELSE 0

ProperRotation(m) == Orthonormal(m) /\ determinant(m) = 1

RotationBlock(a) == IF Len(a) = 9 THEN Matrix3(a) ELSE Rot3(Matrix4(a))

(* C14: from_array fails for every array whose length is not 3, 4, 7, 9 or *)
(* 16, and for every array of length 9 or 16 whose 3x3 rotation block is   *)
(* not orthonormal with determinant +1; for lengths 3 and 7 it succeeds.   *)
C14_FromArrayRejects ==
    last.op = "from_array" =>
        LET a == last.src
        IN  /\ Len(a) \notin {3, 4, 7, 9, 16} => ~last.ok
            /\ (Len(a) \in {9, 16} /\ ~ProperRotation(RotationBlock(a))) => ~last.ok
            /\ Len(a) \in {3, 7} => last.ok

(* from_array just refused a 4x4 array whose rotation block is orthogonal  *)
(* with determinant -1.                                                    *)
C14_Witness ==
    /\ last.op = "from_array" /\ ~last.ok
    /\ Len(last.src) = 16
    /\ Orthonormal(RotationBlock(last.src))
    /\ determinant(RotationBlock(last.src)) = -1

(* C15: from_array on a length-4 array whose quaternion cannot be          *)
(* normalized to unit length, such as all zeros, fails.                    *)
C15_ZeroQuaternionFails ==
    (last.op = "from_array" /\ Len(last.src) = 4 /\ Dot4(last.src) = 0)
        => ~last.ok

(* C16: for src # dst, add_transform succeeds whenever one of the names is *)
(* not yet a frame or the two frames lie in different components; it       *)
(* creates only the missing frames, appends exactly one edge src -> dst    *)
(* carrying T and leaves every earlier edge and transform as it was.       *)
C16_AddJoinsComponents ==
    \A src, dst \in Names, tf \in TFs :
        (/\ src # dst
         /\ \/ ~IsFrame(src)
            \/ ~IsFrame(dst)
            \/ ~Connected(nodes, edges, FrameOf(src), FrameOf(dst)))
        => LET r == add_tf(nodes, edges, src, dst, tf)
               missing == {s \in {src, dst} : ~IsFrame(s)}
               n == Len(r.edges)
           IN  /\ r.ok
               /\ IsPrefix(nodes, r.nodes)
               /\ Len(r.nodes) = Len(nodes) + Cardinality(missing)
               /\ {r.nodes[i] : i \in (Len(nodes) + 1)..Len(r.nodes)} = missing
               /\ n = Len(edges) + 1
               /\ IsPrefix(edges, r.edges)
               /\ r.nodes[r.edges[n].source] = src
               /\ r.nodes[r.edges[n].target] = dst
               /\ IsFrame(src) => r.edges[n].source = FrameOf(src)
               /\ IsFrame(dst) => r.edges[n].target = FrameOf(dst)
               /\ r.edges[n].weight = tf

(* add_transform(src, dst) just succeeded by appending a second edge,      *)
(* src -> dst.                                                             *)
C16_Witness ==
    /\ last.op = "add" /\ last.ok /\ last.src # last.dst
    /\ Len(edges) = 2
    /\ edges[2].source = FrameOf(last.src)
    /\ edges[2].target = FrameOf(last.dst)

EdgesBetween(E, i, j) ==
    {k \in 1..Len(E) : {E[k].source, E[k].target} = {i, j}}

(* C17, as claimed: where the edge dst -> src is stored,                   *)
(* add_transform(src, dst, T) inserts an additional edge, so that the      *)
(* graph afterwards holds two edges between the two frames.                *)
C17_ReverseAddLeavesTwoEdges ==
    \A src, dst \in Names, tf \in TFs :
        (IsFrame(src) /\ IsFrame(dst) /\ HasEdge(FrameOf(dst), FrameOf(src)))
        => LET r == add_tf(nodes, edges, src, dst, tf)
           IN  /\ Len(r.edges) = Len(edges) + 1
               /\ Cardinality(EdgesBetween(r.edges, FrameOf(src), FrameOf(dst))) = 2

(* C17, amended: where the edge dst -> src is stored, add_transform(src,   *)
(* dst, T) does not replace that edge: it appends an additional edge only  *)
(* tentatively, the cycle test rejects it, it is removed again and the     *)
(* call fails, so the graph afterwards is unchanged and still holds one    *)
(* edge between the two frames.                                            *)
C17_ReverseAddIsRolledBack ==
    \A src, dst \in Names, tf \in TFs :
        (IsFrame(src) /\ IsFrame(dst) /\ HasEdge(FrameOf(dst), FrameOf(src)))
        => LET e == update_or_add(edges, FrameOf(src), FrameOf(dst), tf)
               r == add_tf(nodes, edges, src, dst, tf)
           IN  /\ e.edge_new = Len(edges) + 1
               /\ IsPrefix(edges, e.edges)
               /\ is_cyclic_undirected(nodes, e.edges)
               /\ ~r.ok
               /\ Unchanged(r)
               /\ Cardinality(EdgesBetween(r.edges, FrameOf(src), FrameOf(dst))) = 1

(* add_transform(src, dst) was just rejected in a graph of two edges, one  *)
(* of them dst -> src, the only edge between the two frames.               *)
C17_Witness ==
    /\ last.op = "add" /\ ~last.ok /\ last.src # last.dst
    /\ IsFrame(last.src) /\ IsFrame(last.dst)
    /\ HasEdge(FrameOf(last.dst), FrameOf(last.src))
    /\ Len(edges) = 2
    /\ Cardinality(EdgesBetween(edges, FrameOf(last.src), FrameOf(last.dst))) = 1

(* C18: in every reachable state frame names are unique: no two nodes      *)
(* carry the same name, so every frame is the one its name resolves to.    *)
C18_UniqueNames ==
    /\ \A i, j \in 1..Len(nodes) : nodes[i] = nodes[j] => i = j
    /\ \A i \in 1..Len(nodes) : find_node(nodes, nodes[i]) = i

Reverse(p) == [i \in 1..Len(p) |-> p[Len(p) + 1 - i]]

(* C19: for any three frames a, b, c of one connected component, all       *)
(* three queries succeed and query(a, c) is compose(query(b, c),           *)
(* query(a, b)); query(b, a) is the inverse of query(a, b) and its path    *)
(* is the reverse of the path of query(a, b).                              *)
C19_QueriesCompose ==
    \A a, b, c \in Names :
        (/\ IsFrame(a) /\ IsFrame(b) /\ IsFrame(c)
         /\ Connected(nodes, edges, FrameOf(a), FrameOf(b))
         /\ Connected(nodes, edges, FrameOf(b), FrameOf(c)))
        => LET ab == query_tf(nodes, edges, a, b)
               bc == query_tf(nodes, edges, b, c)
               ac == query_tf(nodes, edges, a, c)
               ba == query_tf(nodes, edges, b, a)
           IN  /\ ab.ok /\ bc.ok /\ ac.ok /\ ba.ok
               /\ ac.tf = compose(bc.tf, ab.tf)
               /\ ba.tf = inverse(ab.tf)
               /\ ba.path = Reverse(ab.path)

(* A query was just answered across the chain src -> mid -> dst of two     *)
(* edges whose transforms do not commute.                                  *)
C19_Witness ==
    /\ last.op = "query" /\ last.ok
    /\ Len(nodes) = 3 /\ Len(edges) = 2
    /\ edges[1].target = edges[2].source
    /\ FrameOf(last.src) = edges[1].source
    /\ FrameOf(last.dst) = edges[2].target
    /\ compose(edges[1].weight, edges[2].weight)
           # compose(edges[2].weight, edges[1].weight)
    /\ query_tf(nodes, edges, last.src, last.dst).tf
           = compose(edges[2].weight, edges[1].weight)

====
